---- MODULE Spec2Model ----
(***************************************************************************)
(* A model of the poller Lambda (envs/dev/lambda/poller/handler.py):       *)
(* credential resolution with the process-wide secret cache, the secret    *)
(* fetch loop, the HTTP retry loop and the result envelope.                *)
(*                                                                         *)
(* Values that the code treats as opaque text are strings; Python's None   *)
(* is the string None, and a status that was never obtained is NoStatus.   *)
(* Time is counted in units of 0.75 s, so that the two sleeps of the       *)
(* secret fetch loop (1.5^1 s and 1.5^2 s) are 2 and 3 units.  The sleeps  *)
(* of the HTTP loop are recorded in seconds, as backoff^attempt.           *)
(***************************************************************************)
EXTENDS Integers, Sequences, FiniteSets, TLC

VARIABLES
    SECRET_CACHE,        \* handler.py:7   name -> [exp, val], a partial map
    SECRET_TTL_SECONDS,  \* handler.py:8
    LOG_LEVEL,           \* handler.py:9
    RETURN_DEBUG,        \* handler.py:10
    MAX_BODY_CHARS,      \* handler.py:11
    environ,             \* os.environ: the five API_* settings
    clock,               \* the earliest value time.time() can return next
    inv,                 \* per invocation: position, locals, and what it did
    logged               \* the records print()ed by the latest step

vars == <<SECRET_CACHE, SECRET_TTL_SECONDS, LOG_LEVEL, RETURN_DEBUG,
          MAX_BODY_CHARS, environ, clock, inv, logged>>

----------------------------------------------------------------------------
(* Bounds of the model *)

MaxTime == 2         \* invocations start at times 0..MaxTime
MaxTTL == 1          \* _SECRET_TTL_SECONDS is drawn from 0..MaxTTL
MaxN == 3            \* retry.max_attempts is drawn from -1..MaxN
MaxBody == 2         \* a response body has 0..MaxBody characters, and
                     \* _MAX_BODY_CHARS is drawn from 0..MaxBody

None == "<None>"
NoStatus == -1
NoUrl == "<no url>"
NoBody == "<no body>"
Fail == "<raised>"

Procs == {1, 2}
SeqProcs == {1}

----------------------------------------------------------------------------
(* Pure helpers *)

RECURSIVE Pow(_, _)
Pow(b, e) == IF e = 0 THEN 1 ELSE b * Pow(b, e - 1)

Min(a, b) == IF a <= b THEN a ELSE b

\* the clock after a sleep of d; times past MaxTime are not told apart, as
\* no invocation starts after MaxTime
Later(t, d) == Min(t + d, MaxTime + 1)

\* Python's `x or y` on strings and None
Or(x, y) == IF x # None /\ x # "" THEN x ELSE y

\* str.lower() on the header names of the model
Lower(s) ==
    CASE s = "Authorization" -> "authorization"
      [] s = "X-Api-Key" -> "x-api-key"
      [] s = "X-Custom" -> "x-custom"
      [] s = "X-Other" -> "x-other"
      [] OTHER -> s

\* a merge in which the entries already present win
Merge_keep_first(a, b) ==
    [k \in DOMAIN a \cup DOMAIN b |-> IF k \in DOMAIN a THEN a[k] ELSE b[k]]

\* dict.update / {**a, **b}
Merge(a, b) ==
    [k \in DOMAIN a \cup DOMAIN b |-> IF k \in DOMAIN b THEN b[k] ELSE a[k]]

EmptyMap == [k \in {} |-> None]

\* A header value: its text, and the credential it embeds (None for none)
HV(text, cred) == [text |-> text, cred |-> cred]

Truthy(x) == x # None /\ x # ""

----------------------------------------------------------------------------
(* Logging: _should_log and _log *)

LogOrder(level) ==
    CASE level = "DEBUG" -> 10
      [] level = "INFO" -> 20
      [] level \in {"WARN", "WARNING"} -> 30
      [] level = "ERROR" -> 40
      [] OTHER -> 20

should_log(level) == LogOrder(level) >= LogOrder(LOG_LEVEL)

SensitiveHeaderNames == {"authorization", "x-api-key", "proxy-authorization"}

RedactHeaders(h) ==
    [k \in DOMAIN h |->
        IF Lower(k) \in SensitiveHeaderNames THEN HV("***", None) ELSE h[k]]

\* The keyword arguments of a _log call that can carry text of the request
NoKw == [has_headers |-> FALSE, headers |-> EmptyMap, error |-> None]
KwHeaders(h) == [has_headers |-> TRUE, headers |-> h, error |-> None]
KwError(e) == [has_headers |-> FALSE, headers |-> EmptyMap, error |-> e]

\* _log: the records one call prints (none below the log level)
log(level, step, kw) ==
    IF ~should_log(level) THEN <<>>
    ELSE << [level |-> level, step |-> step,
             has_headers |-> kw.has_headers,
             headers |-> IF kw.has_headers THEN RedactHeaders(kw.headers)
                         ELSE kw.headers,
             error |-> kw.error] >>

----------------------------------------------------------------------------
(* Value coercion of the retry policy: _as_number                          *)
(* A raw value is [tag, n]: "int" a plain number n, "str" the decimal text *)
(* of n, "badstr" a text that is no number, "N" the wrapped {"N": text of  *)
(* n}, "other" any other shape (None, {"S": ..}, a list).                  *)

RawNum(tag, n) == [tag |-> tag, n |-> n]

as_number(val, default) ==
    CASE val.tag = "int" -> val.n
      [] val.tag = "str" -> val.n
      [] val.tag = "N" -> val.n
      [] val.tag = "badstr" -> default
      [] OTHER -> default

----------------------------------------------------------------------------
(* The secret store and the two shapes of secret it holds *)

SecretNames == {"s1", "s2"}
PlainSecret == "tok-plain"            \* a secret stored as a literal string
\* a secret stored as a JSON object with the keys k1 and k2
JsonSecret == "{\"k1\": \"tok-k1\", \"k2\": \"tok-k2\"}"
RawSecrets == {PlainSecret, JsonSecret}

\* json.loads(raw)[json_key], Fail when either step raises
JsonGet(raw, json_key) ==
    CASE raw = JsonSecret /\ json_key = "k1" -> "tok-k1"
      [] raw = JsonSecret /\ json_key = "k2" -> "tok-k2"
      [] OTHER -> Fail

\* str(e) of the exception json.loads(raw)[json_key] raises
JsonErr(raw) == IF raw = JsonSecret THEN "KeyError" ELSE "JSONDecodeError"

\* what secrets.get_secret_value can do: raise ClientError, or return a value
StoreOutcomes == {Fail} \cup RawSecrets

SecretAttempts == 3      \* handler.py:125, the default of `attempts`
\* the same pause after every failed try
SecretBackoff_constant(i) == 2

\* backoff ** i for backoff = 1.5 (handler.py:126), in units of 0.75 s
SecretBackoff(i) == CASE i = 1 -> 2 [] i = 2 -> 3 [] OTHER -> 0

\* an entry still used at the moment it expires
CacheHit_inclusive(cache, name, now) ==
    name \in DOMAIN cache /\ cache[name].exp >= now

\* handler.py:131, the test for a usable cache entry
CacheHit(cache, name, now) == name \in DOMAIN cache /\ cache[name].exp > now

\* handler.py:139-146, the value a cache hit returns
CachedValue(cached_val, json_key) ==
    IF Truthy(json_key) /\ JsonGet(cached_val, json_key) # Fail
    THEN JsonGet(cached_val, json_key)
    ELSE cached_val

\* a cache that holds the latest secret only
CachePut_latest_only(cache, name, now, val) ==
    [n \in {name} |-> [exp |-> now + SECRET_TTL_SECONDS, val |-> val]]

\* handler.py:159, the cache after a successful store call
CachePut(cache, name, now, val) ==
    [n \in DOMAIN cache \cup {name} |->
        IF n = name THEN [exp |-> now + SECRET_TTL_SECONDS, val |-> val]
        ELSE cache[n]]

----------------------------------------------------------------------------
(* _resolve_api_key: the effective auth policy and the source of the key *)

\* event["auth"]; an absent auth and one with no fields behave alike
AuthEvt(h, pre, sn, jk) ==
    [header_name |-> h, prefix |-> pre, secret_name |-> sn, json_key |-> jk]
NoAuthEvt == AuthEvt(None, None, None, None)

\* handler.py:183-199
header_name_of(env, event_auth) ==
    Or(env.API_KEY_HEADER, Or(event_auth.header_name, "Authorization"))
prefix_of(env, event_auth) ==
    Or(env.API_KEY_PREFIX, Or(event_auth.prefix, "Bearer "))
secret_name_of(env, event_auth) ==
    Or(env.API_SECRET_NAME, event_auth.secret_name)
json_key_of(env, event_auth) ==
    Or(env.API_SECRET_JSON_KEY, event_auth.json_key)

\* f"secret:{secret_name}"
SecretLabel(name) ==
    CASE name = "s1" -> "secret:s1"
      [] name = "s2" -> "secret:s2"
      [] OTHER -> "secret:?"

\* handler.py:210, 215: the one header the resolver returns
AuthHeader(header_name, prefix, key) ==
    [k \in {header_name} |-> HV(prefix, key)]

----------------------------------------------------------------------------
(* _http_request against a server that answers `outcome` *)

Transport == 0     \* no response at all: connection refused, DNS, timeout
ServerOutcomes == {Transport, 200, 503}

HttpErrText(outcome) ==
    CASE outcome = Transport -> "URLError"
      [] outcome = 503 -> "HTTP Error 503"
      [] OTHER -> "HTTP Error"

\* event["request"]["body"]: absent, a dict or list, a str, bytes
BodyKinds == {NoBody, "structured", "text", "bytes"}

JsonContentType ==
    [k \in {"Content-Type"} |-> HV("application/json", None)]

\* handler.py:228-238, the headers of the Request for the headers and the
\* body that _http_request was handed
request_headers(headers, body) ==
    IF body = "structured" THEN Merge(headers, JsonContentType) ELSE headers

\* A response body as decoded text: n characters, all different
BodyText(n) == [i \in 1..n |-> i]

\* handler.py:237-246.  Request() rejects a url without a scheme, and
\* urlopen() raises HTTPError for every final status outside 200..299.
\* `outcome` and `body` are the status and the body the server answers with.
http_request(url, outcome, body) ==
    IF url = "" THEN [raised |-> TRUE, status |-> NoStatus,
                      error |-> "unknown url type", body |-> <<>>]
    ELSE IF outcome = Transport \/ ~(200 <= outcome /\ outcome < 300)
    THEN [raised |-> TRUE, status |-> NoStatus, error |-> HttpErrText(outcome),
          body |-> <<>>]
    ELSE [raised |-> FALSE, status |-> outcome, error |-> None, body |-> body]

\* a stop rule that consults retry_on alone
stops_by_retry_on(status, retry_on) == status \notin retry_on

\* handler.py:331-332
is_ok(status) == 200 <= status /\ status < 300
stops(status, retry_on) == is_ok(status) \/ status \notin retry_on

\* a body cut as soon as it reaches the limit
truncated_at_limit(body_text, max_chars) == Len(body_text) >= max_chars

\* handler.py:348-350
truncated(body_text, max_chars) == Len(body_text) > max_chars

\* handler.py:351 and 356, the text under the key "body"
body_kept(body_text, max_chars, cut) ==
    IF cut THEN SubSeq(body_text, 1, max_chars) ELSE body_text

\* a loop that runs while the counter has not passed the budget
loop_continues_inclusive(attempt, max_attempts) == attempt <= max_attempts

\* handler.py:303, the test of the retry loop
loop_continues(attempt, max_attempts) == attempt < max_attempts

\* a delay that grows linearly instead of exponentially
backoff_delay_linear(backoff, attempt) == backoff * attempt

\* handler.py:387, the argument of time.sleep
backoff_delay(backoff, attempt) == Pow(backoff, attempt)

----------------------------------------------------------------------------
(* The result of an invocation.  `keys` are the keys of the returned dict; *)
(* a field whose key is absent holds a filler.                            *)

NoResult ==
    [kind |-> "none", keys |-> {}, ok |-> FALSE, status |-> NoStatus,
     error |-> None, error_n |-> 0, last_error |-> None, attempts |-> 0,
     auth_used |-> None, debug_headers |-> EmptyMap, debug_attempts |-> <<>>,
     body |-> <<>>, body_truncated |-> FALSE]

\* handler.py:271
UrlRequired ==
    [NoResult EXCEPT !.kind = "envelope", !.keys = {"ok", "error"},
                     !.error = "request.url is required"]

\* an exception that leaves lambda_handler
Raised(err) == [NoResult EXCEPT !.kind = "raised", !.error = err]

\* handler.py:363-374 and 397-408
WithDebug(result, r) ==
    IF RETURN_DEBUG
    THEN [result EXCEPT !.keys = @ \cup {"debug"},
                        !.debug_headers = r.headers,
                        !.debug_attempts = r.attempt_logs]
    ELSE result

\* handler.py:343-375, for the locals r and the status and the body just
\* received
Responded(r, status, body_text) ==
    WithDebug([NoResult EXCEPT
        !.kind = "envelope",
        !.keys = {"ok", "status", "headers", "body", "body_truncated",
                  "content_type", "attempts", "auth_used"},
        !.ok = is_ok(status), !.status = status,
        !.body = body_kept(body_text, MAX_BODY_CHARS,
                           truncated(body_text, MAX_BODY_CHARS)),
        !.body_truncated = truncated(body_text, MAX_BODY_CHARS),
        !.attempts = r.attempt, !.auth_used = r.auth_source], r)

\* a final failure that does not carry the last error
Exhausted_without_last_error(r) ==
    WithDebug([NoResult EXCEPT
        !.kind = "envelope",
        !.keys = {"ok", "error", "status", "attempts", "auth_used"},
        !.error = "Poller failed after N attempts", !.error_n = r.attempt,
        !.status = r.last_status,
        !.attempts = r.attempt, !.auth_used = r.auth_source], r)

\* handler.py:389-409
Exhausted(r) ==
    WithDebug([NoResult EXCEPT
        !.kind = "envelope",
        !.keys = {"ok", "error", "last_error", "status", "attempts",
                  "auth_used"},
        !.error = "Poller failed after N attempts", !.error_n = r.attempt,
        !.last_error = r.last_err, !.status = r.last_status,
        !.attempts = r.attempt, !.auth_used = r.auth_source], r)

----------------------------------------------------------------------------
(* Inputs *)

Env(h, pre, sn, jk, key) ==
    [API_KEY_HEADER |-> h, API_KEY_PREFIX |-> pre, API_SECRET_NAME |-> sn,
     API_SECRET_JSON_KEY |-> jk, API_KEY |-> key]

\* the configurations of the process: nothing set, a static key only, all set
Environs ==
    { Env(None, None, None, None, None),
      Env(None, None, None, None, "tok-static"),
      Env("X-Api-Key", "Key ", "s2", "k2", "tok-static") }

\* LOG_LEVEL and RETURN_DEBUG: a verbose process and a quiet one
Observability == { <<"DEBUG", TRUE>>, <<"ERROR", FALSE>> }

\* event["auth"]: absent, a secret name only, all four fields
AuthEvents ==
    { NoAuthEvt,
      AuthEvt(None, None, "s1", None),
      AuthEvt("X-Custom", "Token ", "s1", "k1") }

\* event["request"]["url"]: absent, empty, a well-formed url
Urls == {NoUrl, "", "https://svc/health"}

\* event["request"]["headers"]
CallerHeaders ==
    { EmptyMap,
      [k \in {"Authorization", "X-Other"} |->
          IF k = "Authorization" THEN HV("caller-auth", None)
          ELSE HV("v", None)] }

\* headers of a caller who names the content type of the body
ContentTypeHeaders ==
    { [k \in {"Content-Type"} |-> HV("application/vnd.api+json", None)],
      [k \in {"Content-Type", "X-Other"} |->
          IF k = "Content-Type" THEN HV("text/plain", None)
          ELSE HV("v", None)] }

\* the bodies a server answers with, and the values of MAX_BODY_CHARS
ResponseBodies == { BodyText(n) : n \in 0..MaxBody }
BodyLimits == 0..MaxBody

DefaultMaxAttempts == 3     \* handler.py:261
RawMaxAttempts ==
    { RawNum("int", n) : n \in (-1)..MaxN }
    \cup { RawNum("str", 1), RawNum("N", 2), RawNum("badstr", 0),
           RawNum("other", 0), RawNum("missing", 0) }
Backoffs == {2, 3}
RetryOns == { {}, {200, 503} }

\* retry.get(key, default)
retry_get(raw, default) ==
    IF raw.tag = "missing" THEN RawNum("int", default) ELSE raw

----------------------------------------------------------------------------
(* State of one invocation: the locals of lambda_handler and of            *)
(* _get_secret_value_with_retry, and a record of what it did               *)

IdleInv ==
    [pc |-> "idle",
     url |-> NoUrl, auth_evt |-> NoAuthEvt, caller |-> EmptyMap,
     body |-> NoBody,
     max_attempts |-> 0, backoff |-> 0, retry_on |-> {},
     header_name |-> None, prefix |-> None, secret_name |-> None,
     json_key |-> None,
     now |-> 0, i |-> 0, secret |-> None,
     headers |-> EmptyMap, auth_source |-> None,
     attempt |-> 0, last_err |-> None, last_status |-> NoStatus,
     attempt_logs |-> <<>>,
     resp_body |-> <<>>,       \* `body` of line 306, as text
     result |-> NoResult,
     \* what the invocation did and met
     exec_calls |-> 0, store_calls |-> 0, sleeps |-> <<>>,
     secret_sleeps |-> <<>>, served |-> <<>>,
     fresh |-> FALSE,
     last_store |-> None,      \* the latest answer of the secret store
     passed |-> {},            \* the headers handed to _http_request
     sent |-> {}]              \* the headers of the Requests built

\* A process after its cold start, its configuration drawn from the given
\* sets
Start(envs, obs, ttls, limits) ==
    /\ SECRET_CACHE = EmptyMap
    /\ SECRET_TTL_SECONDS \in ttls
    /\ \E o \in obs : LOG_LEVEL = o[1] /\ RETURN_DEBUG = o[2]
    /\ MAX_BODY_CHARS \in limits
    /\ environ \in envs
    /\ clock = 0
    /\ inv = [p \in Procs |-> IdleInv]
    /\ logged = <<>>

Init == Start(Environs, Observability, 0..MaxTTL, {MaxBody})

config == <<SECRET_TTL_SECONDS, LOG_LEVEL, RETURN_DEBUG, MAX_BODY_CHARS,
            environ>>

\* handler.py:274-298 and the loop test of line 303 before the first attempt:
\* the request is prepared with the resolved key, then the loop is entered
\* or, with max_attempts <= 0, skipped
Prepare(r, key, source, logs) ==
    LET auth_headers == IF source = None THEN EmptyMap
                        ELSE AuthHeader(r.header_name, r.prefix, key)
        \* the locals of the resolver end with its return; secret_name
        \* stays, as auth_source carries it
        r1 == [r EXCEPT !.secret = key, !.auth_source = source,
                        !.headers = Merge(r.caller, auth_headers),
                        !.header_name = None, !.prefix = None,
                        !.json_key = None, !.now = 0, !.i = 0]
        out == logs \o log("INFO", "request_init", KwHeaders(r1.headers))
    IN  IF loop_continues(r1.attempt, r1.max_attempts)
        THEN <<[r1 EXCEPT !.pc = "loop"], out>>
        ELSE <<[r1 EXCEPT !.pc = "done", !.result = Exhausted(r1)], out>>

\* a resolver that prefers the static key to the secret store
Resolve_static_first(r, env, cache) ==
    IF Truthy(env.API_KEY)
    THEN Prepare(r, env.API_KEY, "env:API_KEY", <<>>)
    ELSE IF Truthy(r.secret_name)
    THEN <<[r EXCEPT !.pc = "fetch", !.i = 1],
           log("INFO", "auth_resolve", NoKw)>>
    ELSE Prepare(r, None, None, <<>>)

\* handler.py:182-217 up to the first call of the secret store
Resolve(r, env, cache) ==
    IF Truthy(r.secret_name)
    THEN LET l1 == log("INFO", "auth_resolve", NoKw)
         IN  IF CacheHit(cache, r.secret_name, r.now)
             THEN Prepare(r,
                          CachedValue(cache[r.secret_name].val, r.json_key),
                          SecretLabel(r.secret_name),
                          l1 \o log("DEBUG", "secret_cache", NoKw))
             ELSE <<[r EXCEPT !.pc = "fetch", !.i = 1], l1>>
    ELSE IF Truthy(env.API_KEY)
    THEN Prepare(r, env.API_KEY, "env:API_KEY", <<>>)
    ELSE Prepare(r, None, None, <<>>)

\* a check for an empty url in place of an absent one
url_missing_if_empty(url) == url = ""

\* handler.py:270
url_missing(url) == url = NoUrl

\* lambda_handler from its entry to its first call out (the secret store or
\* the HTTP server), or to its return when it makes none, for an event drawn
\* from the given sets
InvokeWith(p, urls, auth_evts, callers, raws, backoffs, retry_ons, bodies) ==
    /\ inv[p].pc = "idle"
    /\ clock <= MaxTime
    /\ \E url \in urls, ae \in auth_evts, ch \in callers,
          raw \in raws, b \in backoffs, ro \in retry_ons, body \in bodies,
          t \in clock..MaxTime :
        LET r0 == [IdleInv EXCEPT
                     !.url = url, !.auth_evt = ae, !.caller = ch,
                     !.body = body,
                     !.max_attempts =
                         as_number(retry_get(raw, DefaultMaxAttempts),
                                   DefaultMaxAttempts),
                     !.backoff = b, !.retry_on = ro]
            r1 == [r0 EXCEPT
                     !.header_name = header_name_of(environ, ae),
                     !.prefix = prefix_of(environ, ae),
                     !.secret_name = secret_name_of(environ, ae),
                     !.json_key = json_key_of(environ, ae),
                     !.now = t,
                     !.fresh = /\ Truthy(secret_name_of(environ, ae))
                               /\ secret_name_of(environ, ae)
                                      \in DOMAIN SECRET_CACHE
                               /\ t < SECRET_CACHE[
                                      secret_name_of(environ, ae)].exp]
            res == Resolve(r1, environ, SECRET_CACHE)
        IN  /\ clock' = t
            /\ IF url_missing(url)
               THEN /\ inv' = [inv EXCEPT ![p] =
                          [r0 EXCEPT !.pc = "done", !.result = UrlRequired]]
                    /\ logged' = <<>>
               ELSE /\ inv' = [inv EXCEPT ![p] = res[1]]
                    /\ logged' = res[2]
    /\ UNCHANGED <<SECRET_CACHE, config>>

Invoke(p) ==
    InvokeWith(p, Urls, AuthEvents, CallerHeaders, RawMaxAttempts, Backoffs,
               RetryOns, {NoBody})

\* One pass of the loop of _get_secret_value_with_retry (handler.py:149-178)
\* with the store answering `outcome`; after the last failed pass the error
\* is raised (line 179) and leaves _resolve_api_key and lambda_handler, which
\* do not catch it (lines 209, 273)
SecretTry(p) ==
    /\ inv[p].pc = "fetch"
    /\ \E outcome \in StoreOutcomes :
        LET r == [inv[p] EXCEPT !.store_calls = @ + 1,
                                 !.last_store = outcome]
            l1 == log("DEBUG", "secret_fetch", NoKw)
            got == outcome # Fail
            val == IF ~got THEN Fail
                   ELSE IF Truthy(r.json_key) THEN JsonGet(outcome, r.json_key)
                   ELSE outcome
            err == IF ~got THEN "ClientError" ELSE JsonErr(outcome)
            done == Prepare(r, val, SecretLabel(r.secret_name), l1)
            l2 == l1 \o log("ERROR", "secret_fetch_error", KwError(err))
        IN  /\ SECRET_CACHE' =
                  IF got THEN CachePut(SECRET_CACHE, r.secret_name, r.now,
                                       outcome)
                  ELSE SECRET_CACHE
            /\ IF val # Fail
               THEN /\ inv' = [inv EXCEPT ![p] = done[1]]
                    /\ logged' = done[2]
                    /\ clock' = clock
               ELSE IF r.i < SecretAttempts
               THEN /\ inv' = [inv EXCEPT ![p] =
                          [r EXCEPT !.i = @ + 1,
                                    !.secret_sleeps =
                                        Append(@, SecretBackoff(r.i))]]
                    /\ logged' = l2
                    /\ clock' = Later(clock, SecretBackoff(r.i))
               ELSE /\ inv' = [inv EXCEPT ![p] =
                          [r EXCEPT !.pc = "done", !.result = Raised(err)]]
                    /\ logged' = l2
                    /\ clock' = clock
    /\ UNCHANGED config

\* One pass of the retry loop of lambda_handler (handler.py:303-387) with the
\* server answering `outcome` and `body`, and the return that follows the
\* last pass (lines 389-409)
HttpAttemptWith(p, outcomes, bodies) ==
    /\ inv[p].pc = "loop"
    /\ \E outcome \in outcomes, body \in bodies :
        LET r == inv[p]
            n == r.attempt + 1
            resp == http_request(r.url, outcome, body)
            r1 == [r EXCEPT
                     !.attempt = n,
                     !.exec_calls = @ + 1,
                     !.passed = @ \cup {r.headers},
                     !.sent = @ \cup {request_headers(r.headers, r.body)},
                     !.served = IF r.url = "" THEN @ ELSE Append(@, outcome),
                     !.last_status = IF resp.raised THEN @ ELSE resp.status,
                     !.resp_body = IF resp.raised THEN @ ELSE resp.body,
                     !.last_err = IF resp.raised THEN resp.error ELSE @,
                     !.attempt_logs =
                         Append(@, [attempt |-> n, status |-> resp.status,
                                    error |-> resp.error])]
        IN  /\ logged' = IF resp.raised
                         THEN log("ERROR", "http_error", KwError(resp.error))
                         ELSE log("INFO", "http_response", NoKw)
            /\ IF ~resp.raised /\ stops(resp.status, r.retry_on)
               THEN inv' = [inv EXCEPT ![p] =
                        [r1 EXCEPT !.pc = "done",
                                   !.result = Responded(r1, resp.status,
                                                        resp.body)]]
               ELSE LET r2 == IF n < r.max_attempts
                              THEN [r1 EXCEPT !.sleeps =
                                       Append(@, backoff_delay(r.backoff, n))]
                              ELSE r1
                    IN  IF loop_continues(n, r.max_attempts)
                        THEN inv' = [inv EXCEPT ![p] = r2]
                        ELSE inv' = [inv EXCEPT ![p] =
                                 [r2 EXCEPT !.pc = "done",
                                            !.result = Exhausted(r2)]]
    /\ UNCHANGED <<SECRET_CACHE, clock, config>>

HttpAttempt(p) == HttpAttemptWith(p, ServerOutcomes, {BodyText(0)})

\* The runtime takes the result; the process is free for the next event
Return(p) ==
    /\ inv[p].pc = "done"
    /\ inv' = [inv EXCEPT ![p] = IdleInv]
    /\ logged' = <<>>
    /\ UNCHANGED <<SECRET_CACHE, clock, config>>

\* Invocations of one process, one at a time
Next ==
    \E p \in SeqProcs :
        \/ Invoke(p)
        \/ SecretTry(p)
        \/ HttpAttempt(p)
        \/ Return(p)

Spec == Init /\ [][Next]_vars

----------------------------------------------------------------------------
(* Requests with a body and responses with a body, for a process that     *)
(* needs no secret: every kind of request body, callers that name a        *)
(* content type, every length of response body against every limit         *)

StaticEnvirons == { e \in Environs : ~Truthy(e.API_SECRET_NAME) }

BodyInit == Start(StaticEnvirons, Observability, {0}, BodyLimits)

InvokeBody(p) ==
    InvokeWith(p, {"https://svc/health"}, {NoAuthEvt},
               CallerHeaders \cup ContentTypeHeaders,
               {RawNum("int", 1), RawNum("int", 2)}, {2}, RetryOns, BodyKinds)

HttpAttemptBody(p) == HttpAttemptWith(p, ServerOutcomes, ResponseBodies)

BodyNext ==
    \E p \in SeqProcs :
        \/ InvokeBody(p)
        \/ HttpAttemptBody(p)
        \/ Return(p)

SpecBody == BodyInit /\ [][BodyNext]_vars

----------------------------------------------------------------------------
(* The secret cache of a process whose events name two secrets, each with *)
(* and without a JSON key, against a plain HTTP exchange                   *)

CacheAuthEvents ==
    { AuthEvt(None, None, "s1", None), AuthEvt(None, None, "s1", "k1"),
      AuthEvt(None, None, "s2", None), AuthEvt(None, None, "s2", "k2") }

CacheInit == Start(StaticEnvirons, Observability, 0..MaxTTL, {MaxBody})

InvokeCache(p) ==
    InvokeWith(p, {NoUrl, "https://svc/health"}, CacheAuthEvents, {EmptyMap},
               {RawNum("int", 1)}, {2}, { {} }, {NoBody})

HttpAttemptCache(p) == HttpAttemptWith(p, {Transport, 200}, {BodyText(0)})

CacheNext ==
    \E p \in SeqProcs :
        \/ InvokeCache(p)
        \/ SecretTry(p)
        \/ HttpAttemptCache(p)
        \/ Return(p)

SpecCache == CacheInit /\ [][CacheNext]_vars

----------------------------------------------------------------------------
(* Two invocations of one process whose steps interleave: the reads and    *)
(* writes of the cache, the store calls and the HTTP attempts of one fall  *)
(* between those of the other.  Both resolve the secret s1.                *)

ConcAuthEvents ==
    { AuthEvt(None, None, "s1", None), AuthEvt(None, None, "s1", "k1") }

ConcInit ==
    Start({Env(None, None, None, None, None)}, Observability, 0..MaxTTL,
          {MaxBody})

InvokeConc(p) ==
    InvokeWith(p, {"https://svc/health"}, ConcAuthEvents, {EmptyMap},
               {RawNum("int", 1)}, {2}, { {} }, {NoBody})

HttpAttemptConc(p) == HttpAttemptWith(p, {Transport, 200}, {BodyText(0)})

ConcNext ==
    \E p \in Procs :
        \/ InvokeConc(p)
        \/ SecretTry(p)
        \/ HttpAttemptConc(p)
        \/ Return(p)

SpecConc == ConcInit /\ [][ConcNext]_vars

----------------------------------------------------------------------------
(* Properties *)

\* an answer of the server that carries a status
IsStatus(o) == o # Transport
Is2xx(o) == o \in 200..299

\* the server answered every attempt made so far, each time with a status
\* taken from S
AllServed(r, S) ==
    /\ r.exec_calls >= 1
    /\ Len(r.served) = r.exec_calls
    /\ \A k \in 1..Len(r.served) : IsStatus(r.served[k]) /\ r.served[k] \in S

\* the run of the retry loop that C1 describes, after `attempt` passes
RetriedToTheEnd(r) ==
    LET N == r.max_attempts
    IN  /\ r.exec_calls = r.attempt
        /\ r.attempt <= N
        /\ r.sleeps = [k \in 1..(IF r.attempt < N THEN r.attempt ELSE N - 1)
                          |-> Pow(r.backoff, k)]
        /\ (r.pc = "done") = (r.attempt = N)
        /\ r.pc = "done" =>
              /\ r.result.kind = "envelope"
              /\ r.result.ok = FALSE
              /\ r.result.attempts = N
              /\ r.exec_calls = N
              /\ Len(r.sleeps) = N - 1

C2_FirstSuccessEnds ==
    \A p \in Procs :
        (Len(inv[p].served) >= 1 /\ Is2xx(inv[p].served[1])) =>
            /\ inv[p].pc = "done"
            /\ inv[p].result.kind = "envelope"
            /\ inv[p].result.ok = TRUE
            /\ inv[p].result.attempts = 1
            /\ inv[p].exec_calls = 1
            /\ inv[p].sleeps = <<>>

C2_Witness ==
    \E p \in Procs :
        /\ inv[p].served = <<200>> /\ inv[p].max_attempts = 3
        /\ 200 \in inv[p].retry_on
        /\ inv[p].pc = "done" /\ inv[p].result.ok = TRUE
        /\ inv[p].result.attempts = 1 /\ inv[p].sleeps = <<>>

\* C3: when the server answers the first attempt with a non-2xx status that
\* is not in retry_on, the executor returns that status, and the invocation
\* has ended after one executor call and no sleep with an envelope ok =
\* false, status = that status, attempts = 1.
C3_NonRetryableStatusEnds ==
    \A p \in Procs :
        (/\ Len(inv[p].served) >= 1
         /\ IsStatus(inv[p].served[1]) /\ ~Is2xx(inv[p].served[1])
         /\ inv[p].served[1] \notin inv[p].retry_on) =>
            /\ inv[p].pc = "done"
            /\ inv[p].result.kind = "envelope"
            /\ inv[p].result.ok = FALSE
            /\ inv[p].result.status = inv[p].served[1]
            /\ inv[p].result.attempts = 1
            /\ inv[p].exec_calls = 1
            /\ inv[p].sleeps = <<>>

\* C4: an event without request.url is answered with exactly {ok: false,
\* error: "request.url is required"}, whatever its auth and retry fields,
\* with no HTTP attempt, no secret-store call, no sleep and the secret cache
\* left as it was.
C4_MissingUrl ==
    [][\A p \in Procs :
          (inv[p].pc = "idle" /\ inv'[p].pc # "idle" /\ inv'[p].url = NoUrl)
          => /\ inv'[p].pc = "done"
             /\ inv'[p].result.kind = "envelope"
             /\ inv'[p].result.keys = {"ok", "error"}
             /\ inv'[p].result.ok = FALSE
             /\ inv'[p].result.error = "request.url is required"
             /\ inv'[p].exec_calls = 0 /\ inv'[p].store_calls = 0
             /\ inv'[p].sleeps = <<>> /\ inv'[p].secret_sleeps = <<>>
             /\ SECRET_CACHE' = SECRET_CACHE]_vars

\* an event without url, with a secret name and a retry policy, was answered
C4_Witness ==
    \E p \in Procs :
        /\ inv[p].pc = "done" /\ inv[p].url = NoUrl
        /\ inv[p].auth_evt.secret_name = "s1" /\ inv[p].max_attempts = 3
        /\ inv[p].result.keys = {"ok", "error"}
        /\ inv[p].store_calls = 0 /\ inv[p].exec_calls = 0

\* the values a resolution can draw from the stored secret `raw`
FromSecret(raw) == {raw} \cup ({JsonGet(raw, k) : k \in {"k1", "k2"}} \ {Fail})

\* the secret name in force, as the resolver reads it from the settings
Configured(r) == Or(environ.API_SECRET_NAME, r.auth_evt.secret_name)

C6_AlwaysAnEnvelope ==
    \A p \in Procs :
        inv[p].pc = "done" =>
            /\ inv[p].result.kind = "envelope"
            /\ "ok" \in inv[p].result.keys

\* C7: with the debug flag on and a credential resolved, no returned
\* envelope holds the credential in its debug object, debug.request.headers
\* included.
C7_DebugHidesCredential ==
    \A p \in Procs :
        (inv[p].pc = "done" /\ "debug" \in inv[p].result.keys
         /\ inv[p].secret # None) =>
            \A h \in DOMAIN inv[p].result.debug_headers :
                inv[p].result.debug_headers[h].cred = None

\* C8: whatever the name of the auth header, no log record holds the
\* resolved credential: the records do not depend on the secret value.
C8_LogsHideCredential ==
    \A k \in 1..Len(logged) :
        \A h \in DOMAIN logged[k].headers :
            logged[k].headers[h].cred = None

\* the credentials carried by the request headers of r
Creds(r) == {r.headers[h].cred : h \in DOMAIN r.headers} \ {None}

SecretConfigured(r) ==
    Truthy(environ.API_SECRET_NAME) \/ Truthy(r.auth_evt.secret_name)

\* C9: with a secret name configured, the auth header is built from the
\* secret-store value alone and the source is "secret:<name>", also when a
\* static key is configured; when the secret fetch fails there is no HTTP
\* attempt at all; with no secret name and a static key, the static key is
\* used and the source is "env:API_KEY"; with neither, no header is added
\* and the source is absent.
C9_CredentialSource ==
    \A p \in Procs :
        LET r == inv[p] IN
        (r.pc # "idle" /\ r.url # NoUrl) =>
            /\ r.pc = "done" /\ r.result.kind = "envelope" =>
                  r.result.auth_used = r.auth_source
            /\ SecretConfigured(r) =>
                  /\ r.secret_name \in
                        {environ.API_SECRET_NAME, r.auth_evt.secret_name}
                            \ {None}
                  /\ r.pc = "fetch" => r.exec_calls = 0 /\ Creds(r) = {}
                  /\ r.result.kind = "raised" =>
                        /\ r.exec_calls = 0 /\ r.served = <<>>
                        /\ r.store_calls = SecretAttempts
                        /\ Creds(r) = {} /\ r.auth_source = None
                  /\ (r.pc \in {"loop", "done"} /\ r.result.kind # "raised")
                     => /\ r.auth_source = SecretLabel(r.secret_name)
                        /\ r.secret_name \in DOMAIN SECRET_CACHE
                        /\ Creds(r) \subseteq
                              FromSecret(SECRET_CACHE[r.secret_name].val)
                        /\ Creds(r) = {r.secret}
            /\ (~SecretConfigured(r) /\ Truthy(environ.API_KEY)) =>
                  /\ r.pc \in {"loop", "done"}
                  /\ r.store_calls = 0
                  /\ r.auth_source = "env:API_KEY"
                  /\ Creds(r) = {environ.API_KEY}
            /\ (~SecretConfigured(r) /\ ~Truthy(environ.API_KEY)) =>
                  /\ r.pc \in {"loop", "done"}
                  /\ r.store_calls = 0
                  /\ r.auth_source = None
                  /\ r.headers = r.caller

\* a secret was used although a static key was configured too
C9_Witness ==
    \E p \in Procs :
        /\ inv[p].pc = "done" /\ inv[p].result.kind = "envelope"
        /\ Truthy(environ.API_KEY) /\ SecretConfigured(inv[p])
        /\ inv[p].result.auth_used = "secret:s1"
        /\ Creds(inv[p]) = {"tok-k1"}
        /\ inv[p].exec_calls >= 1

\* C10: for each of header name, prefix, secret name and json key, the
\* value of the environment is a default: when the event's auth policy
\* gives a non-empty value, the policy in force has the event's value.
C10_EventOverEnvironment ==
    \A p \in Procs :
        LET r == inv[p]
            e == r.auth_evt
        IN  /\ r.pc = "fetch" =>
                  /\ Truthy(e.header_name) => r.header_name = e.header_name
                  /\ Truthy(e.prefix) => r.prefix = e.prefix
                  /\ Truthy(e.secret_name) => r.secret_name = e.secret_name
                  /\ Truthy(e.json_key) => r.json_key = e.json_key
            /\ (r.pc \in {"loop", "done"} /\ r.auth_source # None) =>
                  /\ Truthy(e.header_name) =>
                        /\ e.header_name \in DOMAIN r.headers
                        /\ r.headers[e.header_name].cred # None
                        /\ Truthy(e.prefix) =>
                              r.headers[e.header_name].text = e.prefix
                  /\ Truthy(e.secret_name) =>
                        r.auth_source = SecretLabel(e.secret_name)

----------------------------------------------------------------------------
\* C11: a response body longer than MAX_BODY_CHARS characters comes back as
\* exactly its first MAX_BODY_CHARS characters with body_truncated true; a
\* body that is not longer comes back whole with body_truncated false.
C11_BodyTruncation ==
    \A p \in Procs :
        LET r == inv[p]
            b == r.resp_body
        IN  (r.pc = "done" /\ "body" \in r.result.keys) =>
                IF Len(b) > MAX_BODY_CHARS
                THEN /\ Len(r.result.body) = MAX_BODY_CHARS
                     /\ \A i \in 1..MAX_BODY_CHARS : r.result.body[i] = b[i]
                     /\ r.result.body_truncated = TRUE
                ELSE /\ r.result.body = b
                     /\ r.result.body_truncated = FALSE

\* a body of two characters was cut to its first one
C11_Witness ==
    \E p \in Procs :
        /\ inv[p].pc = "done"
        /\ "body" \in inv[p].result.keys
        /\ MAX_BODY_CHARS = 1
        /\ Len(inv[p].resp_body) = 2
        /\ inv[p].result.body = <<1>>
        /\ inv[p].result.body_truncated

----------------------------------------------------------------------------
\* C12: a resolution that names a JSON key never yields the whole raw secret:
\* when the non-expired cache entry cannot be parsed or lacks the key, the
\* store is asked again (and the key extracted from its answer) instead of
\* the raw cached value being returned.
C12_NoRawSecretForJsonKey ==
    \A p \in Procs :
        LET r == inv[p]
        IN  (/\ r.pc \in {"loop", "done"}
             /\ r.result.kind # "raised"
             /\ SecretConfigured(r)
             /\ r.auth_source # None
             /\ Truthy(json_key_of(environ, r.auth_evt))) =>
                /\ r.secret \notin RawSecrets
                /\ \A h \in DOMAIN r.headers :
                       r.headers[h].cred \notin RawSecrets

----------------------------------------------------------------------------
\* a try of the secret fetch loop fails when the store raises or when the
\* JSON key cannot be extracted from its answer
TryFailed(outcome, key) ==
    outcome = Fail \/ (Truthy(key) /\ JsonGet(outcome, key) = Fail)

TryError(outcome) == IF outcome = Fail THEN "ClientError" ELSE JsonErr(outcome)

\* the first n pauses of the fetch loop, 1.5^1 s and 1.5^2 s, in units of
\* 0.75 s
SecretPauses(n) == SubSeq(<<2, 3>>, 1, n)

\* C13: on a cache miss the fetch loop calls the store at most `attempts`
\* (3) times; every failed try i < attempts is followed by one sleep of
\* backoff^i and the last try by none; the loop stops at the first try that
\* succeeds; when all tries fail the call fails with the error of the last.
C13_SecretFetchLoop ==
    \A p \in Procs :
        LET r == inv[p]
            key == json_key_of(environ, r.auth_evt)
        IN  /\ r.store_calls <= 3
            /\ (r.pc = "fetch") =>
                   /\ r.store_calls < 3
                   /\ r.store_calls >= 1 => TryFailed(r.last_store, key)
                   /\ r.secret_sleeps = SecretPauses(r.store_calls)
            /\ (r.pc = "done" /\ r.result.kind = "raised") =>
                   /\ r.store_calls = 3
                   /\ TryFailed(r.last_store, key)
                   /\ r.secret_sleeps = SecretPauses(2)
                   /\ r.result.error = TryError(r.last_store)
            /\ (r.pc \in {"loop", "done"} /\ r.store_calls >= 1
                    /\ r.result.kind # "raised") =>
                   /\ ~TryFailed(r.last_store, key)
                   /\ r.secret_sleeps = SecretPauses(r.store_calls - 1)
                   /\ r.secret = IF Truthy(key) THEN JsonGet(r.last_store, key)
                                 ELSE r.last_store

\* three tries failed, the last one on the JSON key, with the two pauses
C13_Witness ==
    \E p \in Procs :
        /\ inv[p].pc = "done"
        /\ inv[p].result.kind = "raised"
        /\ inv[p].store_calls = 3
        /\ inv[p].secret_sleeps = <<2, 3>>
        /\ inv[p].last_store = PlainSecret
        /\ inv[p].result.error = "JSONDecodeError"

----------------------------------------------------------------------------
\* every attempt made so far ended in a transport failure
AllTransport(r) ==
    /\ r.exec_calls >= 1
    /\ Len(r.served) = r.exec_calls
    /\ \A k \in 1..Len(r.served) : r.served[k] = Transport

\* C14: for every max_attempts = N >= 1 and every retry_on, the empty set
\* included, when every attempt fails with a transport exception the
\* invocation makes exactly N attempts with one sleep between consecutive
\* attempts, and returns ok = false, error "Poller failed after N attempts",
\* last_error the message of the last exception, attempts = N, and no status
\* (status null, no body).
C14_TransportFailures ==
    \A p \in Procs :
        LET r == inv[p]
            N == r.max_attempts
        IN  (N >= 1 /\ AllTransport(r)) =>
                /\ r.exec_calls <= N
                /\ r.pc = "loop" =>
                       r.exec_calls < N /\ Len(r.sleeps) = r.exec_calls
                /\ r.pc \in {"loop", "done"}
                /\ r.pc = "done" =>
                       /\ r.exec_calls = N
                       /\ Len(r.sleeps) = N - 1
                       /\ r.result.kind = "envelope"
                       /\ r.result.ok = FALSE
                       /\ "error" \in r.result.keys
                       /\ r.result.error = "Poller failed after N attempts"
                       /\ r.result.error_n = N
                       /\ "last_error" \in r.result.keys
                       /\ r.result.last_error = "URLError"
                       /\ r.result.attempts = N
                       /\ r.result.status = NoStatus
                       /\ "body" \notin r.result.keys

\* three transport failures against an empty retry_on
C14_Witness ==
    \E p \in Procs :
        /\ inv[p].pc = "done"
        /\ inv[p].max_attempts = 3
        /\ inv[p].retry_on = {}
        /\ inv[p].served = <<Transport, Transport, Transport>>
        /\ inv[p].result.error_n = 3
        /\ inv[p].result.last_error = "URLError"

----------------------------------------------------------------------------
\* C15: the secret cache changes only in a step where an invocation's store
\* call for its secret name n succeeds; that step sets the entry of n to the
\* raw value the store returned (before any JSON key is applied) and leaves
\* the entries of all other names as they were.  A cache hit, a failed store
\* call and a rejected event leave the cache unchanged, and no entry is ever
\* deleted.
C15_CacheFrame ==
    [][ /\ DOMAIN SECRET_CACHE \subseteq DOMAIN SECRET_CACHE'
        /\ \A p \in Procs :
               (/\ inv[p].pc = "fetch"
                /\ inv'[p].store_calls = inv[p].store_calls + 1
                /\ inv'[p].last_store \in RawSecrets) =>
                   /\ inv[p].secret_name \in DOMAIN SECRET_CACHE'
                   /\ SECRET_CACHE'[inv[p].secret_name].val
                          = inv'[p].last_store
        /\ SECRET_CACHE' # SECRET_CACHE =>
               \E p \in Procs :
                   /\ inv[p].pc = "fetch"
                   /\ inv'[p].store_calls = inv[p].store_calls + 1
                   /\ inv'[p].last_store \in RawSecrets
                   /\ DOMAIN SECRET_CACHE'
                          = DOMAIN SECRET_CACHE \cup {inv[p].secret_name}
                   /\ \A m \in DOMAIN SECRET_CACHE \ {inv[p].secret_name} :
                          SECRET_CACHE'[m] = SECRET_CACHE[m]
      ]_vars

\* both secrets are cached, s1 raw although the invocation that fetched it
\* extracted the key k1
C15_Witness ==
    /\ DOMAIN SECRET_CACHE = {"s1", "s2"}
    /\ SECRET_CACHE["s1"].val = JsonSecret
    /\ \E p \in Procs :
           inv[p].secret = "tok-k1" /\ inv[p].store_calls = 1

----------------------------------------------------------------------------
\* C16: an event whose request.url is present but empty is rejected like one
\* without a url: the invocation ends at once with the input error, having
\* made no HTTP attempt, no sleep and no store call, and having used none of
\* its attempts.
C16_EmptyUrlRejected ==
    \A p \in Procs :
        LET r == inv[p]
        IN  (r.pc # "idle" /\ r.url = "") =>
                /\ r.pc = "done"
                /\ r.result.kind = "envelope"
                /\ r.result.keys = {"ok", "error"}
                /\ r.result.error = "request.url is required"
                /\ r.exec_calls = 0
                /\ r.attempt = 0
                /\ r.sleeps = <<>>
                /\ r.store_calls = 0

----------------------------------------------------------------------------
\* C17: when _http_request is handed a structured body, a Content-Type
\* among the headers it was handed goes out unchanged, and Content-Type:
\* application/json is added only when there is none; with a string or
\* bytes body, or no body, the headers go out as handed over.
C17_ContentTypeKept ==
    \A p \in Procs :
        LET r == inv[p]
        IN  \A h \in r.sent :
                IF /\ r.body = "structured"
                   /\ "Content-Type" \notin DOMAIN r.headers
                THEN /\ DOMAIN h = DOMAIN r.headers \cup {"Content-Type"}
                     /\ h["Content-Type"].text = "application/json"
                     /\ \A k \in DOMAIN r.headers : h[k] = r.headers[k]
                ELSE h = r.headers

----------------------------------------------------------------------------
----------------------------------------------------------------------------
\* C19 as stated: when invocations of one process interleave, two of them
\* that resolve the same secret name with no live cache entry do not both
\* call the store; at most one fetch per name is in flight at a time.
C19_NoDuplicateFetch ==
    \A p, q \in Procs :
        (/\ p # q
         /\ inv[p].pc = "fetch"
         /\ inv[q].pc = "fetch") =>
            inv[p].secret_name # inv[q].secret_name

\* C19, amended: in every interleaving an invocation calls the store exactly
\* when it read the cache while the cache held no live entry of its name;
\* invocations that each read the cache before the other stored an entry
\* each make their own store calls, at most `attempts` (3) apiece.
C19_FetchOnEveryMiss ==
    \A p \in Procs :
        LET r == inv[p]
        IN  r.pc # "idle" =>
                /\ r.fresh <=> (r.store_calls = 0 /\ r.pc \in {"loop", "done"})
                /\ ~r.fresh <=> (r.pc = "fetch" \/ r.store_calls >= 1)
                /\ r.store_calls <= 3

\* two invocations have both called the store for s1
C19_Witness ==
    \E p, q \in Procs :
        /\ p # q
        /\ inv[p].secret_name = "s1" /\ inv[q].secret_name = "s1"
        /\ inv[p].store_calls >= 1 /\ inv[q].store_calls >= 1
        /\ ~inv[p].fresh /\ ~inv[q].fresh

----------------------------------------------------------------------------
Max(a, b) == IF a >= b THEN a ELSE b

\* the retry loop of r was reached: the event has a url and the credentials
\* were resolved
LoopReached(r) ==
    /\ r.pc \in {"loop", "done"}
    /\ r.url # NoUrl
    /\ r.result.kind # "raised"

\* what C20 says of the counters in every case: the envelope's attempts, the
\* executor calls made and the records of the attempt trace are equal in
\* number
CountersAgree(r) ==
    /\ r.exec_calls = r.attempt
    /\ Len(r.attempt_logs) = r.exec_calls
    /\ r.pc = "done" =>
           /\ r.result.kind = "envelope"
           /\ r.result.attempts = r.exec_calls
           /\ "debug" \in r.result.keys =>
                  Len(r.result.debug_attempts) = r.exec_calls

\* C20 as stated: for every event with a url and every coerced retry policy,
\* max_attempts <= 0 included, once the credentials are resolved the loop
\* ends after at least 1 and at most max(1, max_attempts) executor calls,
\* the attempt counter never exceeds max_attempts, and the counters agree.
C20_AtLeastOneAttempt ==
    \A p \in Procs :
        LET r == inv[p]
        IN  LoopReached(r) =>
                /\ r.attempt <= r.max_attempts
                /\ r.exec_calls <= Max(1, r.max_attempts)
                /\ r.pc = "done" => r.exec_calls >= 1
                /\ CountersAgree(r)

\* C20, amended: the loop ends after at most max(0, max_attempts) executor
\* calls, at least 1 when max_attempts >= 1 and none when max_attempts <= 0;
\* the attempt counter never exceeds max(0, max_attempts); the counters
\* agree.
C20_AttemptBudget ==
    \A p \in Procs :
        LET r == inv[p]
        IN  LoopReached(r) =>
                /\ r.attempt <= Max(0, r.max_attempts)
                /\ r.exec_calls <= Max(0, r.max_attempts)
                /\ r.pc = "done" =>
                       IF r.max_attempts >= 1 THEN r.exec_calls >= 1
                       ELSE /\ r.exec_calls = 0
                            /\ r.result.ok = FALSE
                            /\ r.result.error_n = 0
                /\ CountersAgree(r)

\* an event with max_attempts = 0 ended without any executor call
C20_Witness ==
    \E p \in Procs :
        /\ inv[p].pc = "done"
        /\ inv[p].url = "https://svc/health"
        /\ inv[p].max_attempts = 0
        /\ inv[p].exec_calls = 0
        /\ inv[p].result.kind = "envelope"
        /\ inv[p].result.attempts = 0

----------------------------------------------------------------------------
\* C21: the cache entry written by a successful live fetch expires TTL after
\* the moment of the store call that succeeded, also when that was the 2nd
\* or 3rd try after backoff sleeps; so right after a successful fetch with
\* TTL > 0 the entry has not expired, and the next resolution of the name
\* would be a cache hit.  (While the invocation that fetched is in its HTTP
\* loop or done, clock is still the time of its last store call.)
C21_ExpiryFromStoreCall ==
    \A p \in Procs :
        LET r == inv[p]
        IN  (/\ r.pc \in {"loop", "done"}
             /\ r.result.kind # "raised"
             /\ r.store_calls >= 1) =>
                /\ r.secret_name \in DOMAIN SECRET_CACHE
                /\ SECRET_CACHE[r.secret_name].exp
                       >= clock + SECRET_TTL_SECONDS
                /\ SECRET_TTL_SECONDS > 0 =>
                       CacheHit(SECRET_CACHE, r.secret_name, clock)

====
